---------------------------- MODULE Spec2Model ----------------------------
(***************************************************************************)
(* Model of the Discord auto-reply bot: the poll-and-reply engine          *)
(* (class DiscordBot of discord_bot.py and of bot_gui.py) and the three    *)
(* shells that drive it: the plain script (discord_bot.py __main__), the   *)
(* Flask service (app.py) and the Tkinter GUI (bot_gui.py).                *)
(*                                                                         *)
(* Every Python thread is a process with a program counter; one step is    *)
(* one read or write of shared state (a global, an attribute of a shared   *)
(* DiscordBot object, one WebDriver command).  Texts are sequences of      *)
(* characters.                                                             *)
(***************************************************************************)
EXTENDS Integers, Sequences, FiniteSets, TLC

\* ------------------------------------------------------------------ bounds
MaxLen      == 2   \* longest raw message text
MaxVisible  == 1   \* messages kept in the visible message list
MaxEngines  == 2   \* DiscordBot objects constructed in one run
MaxSessions == 2   \* browser sessions opened in one run
MaxStarts   == 2   \* /start requests in one run (service shell)
MaxStops    == 1   \* /stop requests in one run (service shell)
MaxDialogs  == 1   \* settings windows of the GUI open at a time
MaxFeed     == 2   \* messages the page shows at a time in the runs of SpecFeed
MaxCounted  == 3   \* replies counted after one posted message

\* ------------------------------------------------------------------ texts
Chars == {"a", "A", " "}

Texts == UNION {[1..n -> Chars] : n \in 0..MaxLen}

\* str.lower() on one character
LowerChar(c) == IF c = "A" THEN "a" ELSE c

\* str.lower()
Lower(s) == [i \in 1..Len(s) |-> LowerChar(s[i])]

\* characters str.strip() removes
IsSpace(c) == c = " "

RECURSIVE LStrip(_)
LStrip(s) == IF s # <<>> /\ IsSpace(Head(s)) THEN LStrip(Tail(s)) ELSE s

RECURSIVE RStrip(_)
RStrip(s) ==
    IF s # <<>> /\ IsSpace(s[Len(s)]) THEN RStrip(SubSeq(s, 1, Len(s) - 1)) ELSE s

\* str.strip()
Strip(s) == RStrip(LStrip(s))

\* Python's `needle in hay` on strings
Contains(hay, needle) ==
    \E k \in 0..(Len(hay) - Len(needle)) : SubSeq(hay, k + 1, k + Len(needle)) = needle

\* the trigger test without lower(): what the code does not do
AnyTriggerCaseSensitive(trigs, text) ==
    \E i \in 1..Len(trigs) : Contains(text, trigs[i])

\* the trigger test with all() in the place of any()
AnyTriggerVacuous(trigs, text) ==
    \A i \in 1..Len(trigs) : Contains(Lower(text), Lower(trigs[i]))

\* any(trigger.lower() in last_text.lower() for trigger in self.triggers)
AnyTrigger(trigs, text) ==
    \E i \in 1..Len(trigs) : Contains(Lower(text), Lower(trigs[i]))

\* the new-message test with a comparison that ignores case
IsNewTextIgnoreCase(last_text, last_seen) ==
    last_text # <<>> /\ Lower(last_text) # Lower(last_seen)

\* a new-message test that takes every text as new
IsNewTextAlways(last_text, last_seen) == TRUE

\* the new-message test without the comparison with the cursor
IsNewTextNoDedup(last_text, last_seen) == last_text # <<>>

\* `if last_text and last_text != self.last_seen`
IsNewText(last_text, last_seen) == last_text # <<>> /\ last_text # last_seen

\* the last element of the visible message list, "" standing for no list
LatestText(ch) == IF ch = <<>> THEN <<>> ELSE Strip(ch[Len(ch)])

\* messages[0]
FirstMessage(ch) == ch[1]

\* messages[-1]
LastMessage(ch) == ch[Len(ch)]

\* --------------------------------------------------------- configuration
\* the JSON document of config.json
ConfigDoc(trigs, reply) ==
    [kind |-> "json", keys |-> {"TRIGGERS", "REPLY_TEXT"},
     TRIGGERS |-> trigs, REPLY_TEXT |-> reply]

NoFile == [kind |-> "missing", keys |-> {}, TRIGGERS |-> <<>>, REPLY_TEXT |-> <<>>]

BadFile == [kind |-> "malformed", keys |-> {}, TRIGGERS |-> <<>>, REPLY_TEXT |-> <<>>]

\* config_loader.load_config: (config, success)
LoadConfig(file) ==
    IF file.kind = "json" /\ {"TRIGGERS", "REPLY_TEXT"} \subseteq file.keys
    THEN [config |-> file, success |-> TRUE]
    ELSE [config |-> [kind |-> "json", keys |-> {}, TRIGGERS |-> <<>>,
                      REPLY_TEXT |-> <<>>],
          success |-> FALSE]

\* the trigger lists and reply texts the model's configuration files hold
TriggerLists == { <<>>, << <<"a", "a">> >>, << <<" ">>, <<"A">> >> }

ReplyTexts == { <<"A">>, <<"a", "A">> }

\* -------------------------------------------------------------- variables
VARIABLES
    shell,         \* "script" | "feed" | "http" | "gui": the shell this run is of
    cfgFile,       \* config.json
    eng,           \* the DiscordBot objects: eng[e] is object e's attributes
    nEngines,      \* DiscordBot objects constructed so far
    sess,          \* the browser sessions: sess[d] = [st, closes]
    nSessions,     \* browser sessions opened so far
    channel,       \* the visible message list of the channel, oldest first
    bot_instance,  \* app.py global / BotGUI attribute: an object or 0 (None)
    is_running,    \* app.py global / BotGUI attribute
    btn,           \* BotGUI: which buttons are enabled
    current_config,\* BotGUI.current_config
    thr,           \* the threads: thr[t] = [kind, pc, self, qret, hnd, txt]
    h              \* history of the run, read by the properties only

vars == <<shell, cfgFile, eng, nEngines, sess, nSessions, channel,
          bot_instance, is_running, btn, current_config, thr, h>>

Engines  == 1..MaxEngines
Sessions == 1..MaxSessions
MaxThreads == MaxStarts + MaxStops + MaxStarts
Threads  == 1..(1 + MaxThreads)

\* DiscordBot.__init__
\* a constructor that takes the cursor over from the object made before
NewEngineInherits(trigs, reply) ==
    [triggers |-> trigs, reply_text |-> reply, driver |-> 0,
     last_seen |-> IF nEngines > 0 THEN eng[nEngines].last_seen ELSE <<>>,
     is_monitoring |-> FALSE, is_driver_ready |-> FALSE]

\* DiscordBot.__init__
NewEngine(trigs, reply) ==
    [triggers |-> trigs, reply_text |-> reply, driver |-> 0, last_seen |-> <<>>,
     is_monitoring |-> FALSE, is_driver_ready |-> FALSE]

\* the place of an object that is not constructed yet
NoEngine ==
    [triggers |-> <<>>, reply_text |-> <<>>, driver |-> 0, last_seen |-> <<>>,
     is_monitoring |-> FALSE, is_driver_ready |-> FALSE]

FreeThread == [kind |-> "free", pc |-> "free", self |-> 0, qret |-> "none",
               hnd |-> 0, txt |-> <<>>]

NoButtons ==
    [run |-> FALSE, monitor |-> FALSE, stop |-> FALSE, settings |-> FALSE,
     dialog |-> 0]

InitHistory ==
    [runReplies |-> [e \in Engines |-> 0],
     stale      |-> [e \in Engines |-> FALSE],
     seenRun    |-> [e \in Engines |-> FALSE],
     follow     |-> [e \in Engines |-> FALSE],
     failedFor  |-> [e \in Engines |-> <<"none">>],
     outcome    |-> [e \in Engines |-> "none"],
     lost       |-> [e \in Engines |-> FALSE],
     lostDone   |-> [e \in Engines |-> FALSE],
     stopped    |-> [e \in Engines |-> FALSE],
     stopCmd    |-> [e \in Engines |-> FALSE],
     overlapQuit |-> [e \in Engines |-> FALSE],
     readySig   |-> [e \in Engines |-> FALSE],
     usedTrig   |-> [e \in Engines |-> <<>>],
     sinceExt   |-> 0,
     setupFailed |-> [e \in Engines |-> FALSE],
     stopSeen   |-> {},
     missedStop |-> FALSE,
     noopQuit   |-> FALSE]

\* ------------------------------------------------------------- bookkeeping
Self(t) == thr[t].self

\* the class the shell instantiates: discord_bot.DiscordBot or bot_gui.DiscordBot
GuiClass == shell = "gui"

AllEngines(v) == [e \in Engines |-> v]

\* the statements of check_for_new_message and of what it calls
TickPcs == {"k_guard", "k_find", "k_text", "k_commit", "k_trig", "k_reply",
            "k_lost", "k_raise"}

\* a call of check_for_new_message on object e is in progress
InTick(e) ==
    \E t \in Threads :
       /\ thr[t].self = e
       /\ \/ thr[t].pc \in TickPcs
          \/ thr[t].qret = "k_raise"

\* the history of an object's ticks is kept in the shells that call them from
\* one thread; the service's runs keep the history of its threads only
TickLog == shell # "http"

\* the replies sent since somebody else posted are counted in the script
ReplyLog == shell = "script"

\* history: the latest visible text changes from the one of `channel` to that of
\* ch: a new run of ticks begins, the calls in progress belong to neither run
HChannel(hh, ch) ==
    IF ~TickLog \/ LatestText(ch) = LatestText(channel) THEN hh
    ELSE [hh EXCEPT !.runReplies = AllEngines(0),
                    !.stale = [e \in Engines |-> InTick(e)],
                    !.seenRun = AllEngines(FALSE)]

\* history: a call of check_for_new_message on object e begins
HTickStart(hh, e) ==
    IF ~TickLog THEN hh
    ELSE [hh EXCEPT !.stale[e] = FALSE, !.follow[e] = hh.seenRun[e],
                    !.outcome[e] = "running"]

\* the statements of quit
QuitPcs == {"q_if", "q_close", "q_null", "q_flags"}

\* a call of e.quit() is in progress
InQuit(e) == TickLog /\ \E u \in Threads : thr[u].self = e /\ thr[u].pc \in QuitPcs

\* thread t calls e.quit(), to return to ret
CallQuit(t, e, ret) ==
    /\ thr' = [thr EXCEPT ![t].pc = "q_if", ![t].self = e, ![t].qret = ret]
    /\ h' = [h EXCEPT !.overlapQuit[e] = @ \/ InQuit(e)]

\* history: a call of check_for_new_message on object e ends, having taken branch o
HTickEnd(hh, e, o) ==
    IF ~TickLog THEN hh
    ELSE [hh EXCEPT !.stale[e] = FALSE, !.follow[e] = FALSE, !.outcome[e] = o,
                    !.usedTrig[e] = <<>>]

\* where check_for_new_message returns to, and where its exception is handled
TickRetPc(kind) ==
    CASE kind = "main" -> "sc_loop"
      [] kind = "mon"  -> "m_while"
      [] kind = "gmon" -> "gm_while"

TickRaisePc(kind) ==
    CASE kind = "main" -> "sc_finally"
      [] kind = "mon"  -> "m_finally"
      [] kind = "gmon" -> "gm_finally"

\* the frame of check_for_new_message is left
LeftTick(t, pc) ==
    [thr EXCEPT ![t].pc = pc, ![t].txt = <<>>, ![t].hnd = 0,
                ![t].self = IF thr[t].kind = "mon" THEN 0 ELSE thr[t].self]

\* check_for_new_message returns, having taken branch o
TickReturn(t, o) ==
    /\ thr' = LeftTick(t, TickRetPc(thr[t].kind))
    /\ h' = HTickEnd(h, Self(t), o)

\* ------------------------------------------------ the environment's steps
\* how many messages the page shows at a time
Visible == IF shell = "feed" THEN MaxFeed ELSE MaxVisible

\* the message list after one more message became visible
Pushed(ch, m) ==
    IF Len(ch) < Visible THEN Append(ch, m) ELSE Append(Tail(ch), m)

\* a message of the shell's pool becomes visible in the channel (somebody posts)
Post(sh, pool) ==
    /\ shell = sh
    /\ \E d \in Sessions : sess[d].st = "open"
    /\ \E m \in pool :
          /\ channel' = Pushed(channel, m)
          /\ h' = [HChannel(h, Pushed(channel, m)) EXCEPT !.sinceExt = 0]
    /\ UNCHANGED <<shell, cfgFile, eng, nEngines, sess, nSessions,
                   bot_instance, is_running, btn, current_config, thr>>

\* a browser session is lost (the window is closed, the browser crashes)
SessionDies ==
    /\ \E d \in Sessions :
          /\ sess[d].st = "open"
          /\ sess' = [sess EXCEPT ![d].st = "dead"]
    /\ UNCHANGED <<shell, cfgFile, eng, nEngines, nSessions, channel,
                   bot_instance, is_running, btn, current_config, thr, h>>

\* --------------------------------------------------- DiscordBot.setup_driver
\* a caller that goes on whatever setup_driver returned
SetupRetPcUnchecked(kind, ok) ==
    CASE kind = "main"  -> "sc_loop"
      [] kind = "start" -> "st_run"
      [] kind = "gui"   -> "g_run"

\* where setup_driver returns to, by its value
SetupRetPc(kind, ok) ==
    CASE kind = "main"  -> IF ok THEN "sc_loop" ELSE "done"
      [] kind = "start" -> IF ok THEN "st_run" ELSE "done"
      [] kind = "gui"   -> IF ok THEN "g_run" ELSE "g_fail"

\* setup_driver returns ok to thread t; a request's thread drops its reference
SetupReturn(t, ok) ==
    [thr EXCEPT ![t].pc = SetupRetPc(thr[t].kind, ok),
                ![t].self = IF thr[t].kind = "start" THEN 0 ELSE @]

\* self.driver = webdriver.Edge(...): a session opens, or WebDriverException
SdEdge(t) ==
    /\ thr[t].pc = "sd_edge"
    /\ \/ /\ nSessions < MaxSessions
          /\ nSessions' = nSessions + 1
          /\ sess' = [sess EXCEPT ![nSessions + 1].st = "open"]
          /\ eng' = [eng EXCEPT ![Self(t)].driver = nSessions + 1]
          /\ thr' = [thr EXCEPT ![t].pc = "sd_get"]
          /\ h' = h
       \/ /\ thr' = SetupReturn(t, FALSE)
          /\ h' = [h EXCEPT !.setupFailed[Self(t)] = GuiClass]
          /\ UNCHANGED <<nSessions, sess, eng>>
    /\ UNCHANGED <<shell, cfgFile, nEngines, channel, bot_instance, is_running,
                   btn, current_config, h>>

\* self.driver.get("https://discord.com/app")
SdGet(t) ==
    /\ thr[t].pc = "sd_get"
    /\ LET d == eng[Self(t)].driver IN
       \/ /\ d # 0 /\ sess[d].st = "open"
          /\ thr' = IF GuiClass THEN SetupReturn(t, TRUE)
                    ELSE [thr EXCEPT ![t].pc = "sd_input"]
          /\ h' = h
       \/ /\ thr' = SetupReturn(t, FALSE)
          /\ h' = [h EXCEPT !.setupFailed[Self(t)] = GuiClass]
    /\ UNCHANGED <<shell, cfgFile, eng, nEngines, sess, nSessions, channel,
                   bot_instance, is_running, btn, current_config>>

\* input("Press Enter once you are logged in ..."): Enter, or end of input
SdInput(t) ==
    /\ thr[t].pc = "sd_input"
    /\ \E ok \in BOOLEAN :
          /\ thr' = SetupReturn(t, ok)
          /\ h' = h
    /\ UNCHANGED <<shell, cfgFile, eng, nEngines, sess, nSessions, channel,
                   bot_instance, is_running, btn, current_config>>

\* ------------------------------------------------------- DiscordBot.quit
\* quit without its guard
QuitGuardAlways(e) == TRUE

\* `if self.driver:`
QuitGuard(e) == eng[e].driver # 0

\* where an exception raised by quit is handled, by the call it returns to
QuitRaisePc(t) ==
    CASE thr[t].qret = "k_raise"    -> TickRaisePc(thr[t].kind)
      [] thr[t].qret = "g_stop_end" -> "g_idle"
      [] OTHER                      -> "done"

QIf(t) ==
    /\ thr[t].pc = "q_if"
    /\ IF QuitGuard(Self(t))
       THEN /\ thr' = [thr EXCEPT ![t].pc = "q_close"]
            /\ h' = h
       ELSE /\ thr' = [thr EXCEPT ![t].pc = thr[t].qret, ![t].qret = "none"]
            /\ h' = [h EXCEPT !.noopQuit =
                        @ \/ (TickLog /\ \E d \in Sessions : sess[d].closes > 0)]
    /\ UNCHANGED <<shell, cfgFile, eng, nEngines, sess, nSessions, channel,
                   bot_instance, is_running, btn, current_config>>

\* self.driver.quit(): AttributeError on None; ChromiumDriver.quit swallows the
\* errors of a session that is already gone
QClose(t) ==
    /\ thr[t].pc = "q_close"
    /\ LET d == eng[Self(t)].driver IN
       IF d = 0
       THEN /\ thr' = [LeftTick(t, QuitRaisePc(t)) EXCEPT ![t].qret = "none"]
            /\ h' = IF thr[t].qret = "k_raise"
                    THEN HTickEnd(h, Self(t), "Error") ELSE h
            /\ sess' = sess
       ELSE /\ sess' = [sess EXCEPT ![d].st = "closed", ![d].closes = @ + 1]
            /\ thr' = [thr EXCEPT ![t].pc = "q_null"]
            /\ h' = h
    /\ UNCHANGED <<shell, cfgFile, eng, nEngines, nSessions, channel,
                   bot_instance, is_running, btn, current_config>>

\* self.driver = None
QNull(t) ==
    /\ thr[t].pc = "q_null"
    /\ eng' = [eng EXCEPT ![Self(t)].driver = 0]
    /\ thr' = IF GuiClass THEN [thr EXCEPT ![t].pc = "q_flags"]
              ELSE [thr EXCEPT ![t].pc = thr[t].qret, ![t].qret = "none"]
    /\ UNCHANGED <<shell, cfgFile, nEngines, sess, nSessions, channel,
                   bot_instance, is_running, btn, current_config, h>>

\* bot_gui.py only: self.is_monitoring.clear(); self.is_driver_ready.clear()
QFlags(t) ==
    /\ thr[t].pc = "q_flags"
    /\ eng' = [eng EXCEPT ![Self(t)].is_monitoring = FALSE,
                          ![Self(t)].is_driver_ready = FALSE]
    /\ thr' = [thr EXCEPT ![t].pc = thr[t].qret, ![t].qret = "none"]
    /\ UNCHANGED <<shell, cfgFile, nEngines, sess, nSessions, channel,
                   bot_instance, is_running, btn, current_config, h>>

\* ------------------------------------------- DiscordBot.check_for_new_message
\* the first statement of check_for_new_message
TickEntry == IF GuiClass THEN "k_find" ELSE "k_guard"

\* discord_bot.py only: `if not self.driver: ... return False`
KGuard(t) ==
    /\ thr[t].pc = "k_guard"
    /\ IF eng[Self(t)].driver = 0
       THEN TickReturn(t, "NotReady")
       ELSE thr' = [thr EXCEPT ![t].pc = "k_find"] /\ h' = h
    /\ UNCHANGED <<shell, cfgFile, eng, nEngines, sess, nSessions, channel,
                   bot_instance, is_running, btn, current_config>>

\* the except clauses of check_for_new_message, in their order: what the
\* clause that catches exc does
ExceptClause(exc) ==
    CASE exc = "NoSuchElementException" -> "return"
      [] exc = "WebDriverException"     -> "raise"
      [] OTHER                          -> "return"

\* `except NoSuchElementException:` with a body that forgets the cursor
OnElementNotFoundForget(e) == [eng EXCEPT ![e].last_seen = <<>>]

\* `except NoSuchElementException: print(...); return False`
OnElementNotFound(e) == eng

\* messages = self.driver.find_elements(...); `if not messages: return`;
\* last_message_el = messages[-1]
KFind(t) ==
    /\ thr[t].pc = "k_find"
    /\ LET d == eng[Self(t)].driver IN
       IF d = 0
       THEN \* AttributeError on None: `except Exception`
            TickReturn(t, "Error") /\ eng' = eng
       ELSE IF sess[d].st # "open"
       THEN \* WebDriverException
            /\ thr' = [thr EXCEPT ![t].pc = "k_lost", ![t].hnd = d]
            /\ h' = [h EXCEPT !.lost[Self(t)] = TRUE]
            /\ eng' = eng
       ELSE \/ /\ IF channel = <<>>
                  THEN TickReturn(t, "NoNewMessage")
                  ELSE /\ thr' = [thr EXCEPT ![t].pc = "k_text", ![t].hnd = d,
                                             ![t].txt = LastMessage(channel)]
                       /\ h' = h
               /\ eng' = eng
            \/ \* NoSuchElementException
               IF ExceptClause("NoSuchElementException") = "return"
               THEN /\ TickReturn(t, "ElementNotFound")
                    /\ eng' = OnElementNotFound(Self(t))
               ELSE /\ thr' = [thr EXCEPT ![t].pc = "k_lost", ![t].hnd = d]
                    /\ h' = h
                    /\ eng' = eng
            \/ \* any other exception
               TickReturn(t, "Error") /\ eng' = eng
    /\ UNCHANGED <<shell, cfgFile, nEngines, sess, nSessions, channel,
                   bot_instance, is_running, btn, current_config>>

\* last_text = last_message_el.text.strip();
\* `if last_text and last_text != self.last_seen:`
KText(t) ==
    /\ thr[t].pc = "k_text"
    /\ IF sess[thr[t].hnd].st # "open"
       THEN /\ thr' = [thr EXCEPT ![t].pc = "k_lost"]
            /\ h' = [h EXCEPT !.lost[Self(t)] = TRUE]
       ELSE IF IsNewText(Strip(thr[t].txt), eng[Self(t)].last_seen)
       THEN /\ thr' = [thr EXCEPT ![t].pc = "k_commit", ![t].txt = Strip(thr[t].txt)]
            /\ h' = h
       ELSE TickReturn(t, "NoNewMessage")
    /\ UNCHANGED <<shell, cfgFile, eng, nEngines, sess, nSessions, channel,
                   bot_instance, is_running, btn, current_config>>

\* a tick that leaves the cursor alone
CommitSkipped(e, text) == eng

\* self.last_seen = last_text
Commit(e, text) == [eng EXCEPT ![e].last_seen = text]

KCommit(t) ==
    /\ thr[t].pc = "k_commit"
    /\ eng' = Commit(Self(t), thr[t].txt)
    /\ thr' = [thr EXCEPT ![t].pc = "k_trig"]
    /\ h' = IF ~TickLog THEN h
            ELSE [h EXCEPT !.seenRun[Self(t)] = @ \/ ~h.stale[Self(t)],
                           !.failedFor[Self(t)] = <<"none">>]
    /\ UNCHANGED <<shell, cfgFile, nEngines, sess, nSessions, channel,
                   bot_instance, is_running, btn, current_config>>

\* `if any(trigger.lower() in last_text.lower() for trigger in self.triggers):`
KTrig(t) ==
    /\ thr[t].pc = "k_trig"
    /\ IF AnyTrigger(eng[Self(t)].triggers, thr[t].txt)
       THEN /\ thr' = [thr EXCEPT ![t].pc = "k_reply"]
            /\ h' = IF TickLog
                    THEN [h EXCEPT !.usedTrig[Self(t)] = eng[Self(t)].triggers]
                    ELSE h
       ELSE TickReturn(t, "NewMessageIgnored")
    /\ UNCHANGED <<shell, cfgFile, eng, nEngines, sess, nSessions, channel,
                   bot_instance, is_running, btn, current_config>>

\* history: _send_reply is called by object e
HReply(hh, e) ==
    IF ~TickLog THEN hh
    ELSE [hh EXCEPT !.runReplies[e] = IF hh.stale[e] THEN @ ELSE @ + 1]

\* self._send_reply(): box = self.driver.find_element(...); box.click();
\* box.send_keys(self.reply_text + Keys.ENTER); every exception is caught.
\* Then discord_bot.py returns True.
KReply(t) ==
    /\ thr[t].pc = "k_reply"
    /\ LET e == Self(t)
           d == eng[e].driver
           sent == Pushed(channel, eng[e].reply_text)
           back == LeftTick(t, TickRetPc(thr[t].kind))
       IN
       \/ /\ d # 0 /\ sess[d].st = "open"
          /\ channel' = sent
          /\ thr' = back
          /\ h' = [HTickEnd(HChannel(HReply(h, e), sent), e, "TriggerFired")
                   EXCEPT !.sinceExt = IF ReplyLog /\ @ < MaxCounted
                                       THEN @ + 1 ELSE @]
       \/ /\ channel' = channel
          /\ thr' = back
          /\ h' = [HTickEnd(HReply(h, e), e, "TriggerFired") EXCEPT
                      !.failedFor[e] = IF TickLog THEN thr[t].txt ELSE @]
    /\ UNCHANGED <<shell, cfgFile, eng, nEngines, sess, nSessions,
                   bot_instance, is_running, btn, current_config>>

\* `except WebDriverException`: discord_bot.py calls self.quit() and re-raises,
\* bot_gui.py clears is_monitoring and re-raises
KLost(t) ==
    /\ thr[t].pc = "k_lost"
    /\ IF GuiClass
       THEN /\ eng' = [eng EXCEPT ![Self(t)].is_monitoring = FALSE]
            /\ thr' = LeftTick(t, TickRaisePc(thr[t].kind))
            /\ h' = [HTickEnd(h, Self(t), "SessionLost") EXCEPT
                        !.lostDone[Self(t)] = TRUE, !.stopped[Self(t)] = TRUE]
       ELSE /\ eng' = eng
            /\ CallQuit(t, Self(t), "k_raise")
    /\ UNCHANGED <<shell, cfgFile, nEngines, sess, nSessions, channel,
                   bot_instance, is_running, btn, current_config>>

\* discord_bot.py: `raise` after self.quit()
KRaise(t) ==
    /\ thr[t].pc = "k_raise"
    /\ h' = [HTickEnd(h, Self(t), "SessionLost") EXCEPT !.lostDone[Self(t)] = TRUE]
    /\ thr' = LeftTick(t, TickRaisePc(thr[t].kind))
    /\ UNCHANGED <<shell, cfgFile, eng, nEngines, sess, nSessions, channel,
                   bot_instance, is_running, btn, current_config>>

\* the steps of the methods of discord_bot.DiscordBot, whoever called them
SvcMethod(t) ==
    \/ SdEdge(t) \/ SdGet(t) \/ SdInput(t)
    \/ QIf(t) \/ QClose(t) \/ QNull(t)
    \/ KGuard(t) \/ KFind(t) \/ KText(t) \/ KCommit(t) \/ KTrig(t) \/ KReply(t)
    \/ KLost(t) \/ KRaise(t)

\* the steps of the methods of bot_gui.DiscordBot, whoever called them
GuiMethod(t) ==
    \/ SdEdge(t) \/ SdGet(t)
    \/ QIf(t) \/ QClose(t) \/ QNull(t) \/ QFlags(t)
    \/ KFind(t) \/ KText(t) \/ KCommit(t) \/ KTrig(t) \/ KReply(t) \/ KLost(t)

\* ---------------------------------------- the script: discord_bot.py __main__
\* configuration files the runs start from
ConfigFiles == {ConfigDoc(tl, r) : tl \in TriggerLists, r \in ReplyTexts}
                  \cup {NoFile, BadFile}

InitCommon ==
    /\ eng = [e \in Engines |-> NoEngine]
    /\ nEngines = 0
    /\ sess = [d \in Sessions |-> [st |-> "none", closes |-> 0]]
    /\ nSessions = 0
    /\ channel = <<>>
    /\ bot_instance = 0
    /\ is_running = FALSE
    /\ h = InitHistory

\* DEFAULT_TRIGGERS, DEFAULT_REPLY of bot_gui.py, as texts of the model
DefaultConfig == [TRIGGERS |-> << <<"a", "a">> >>, REPLY_TEXT |-> <<"A">>]

InitScript ==
    /\ shell = "script"
    /\ cfgFile \in ConfigFiles
    /\ InitCommon
    /\ btn = NoButtons
    /\ current_config = DefaultConfig
    /\ thr = [t \in Threads |->
                IF t = 1 THEN [FreeThread EXCEPT !.kind = "main", !.pc = "sc_load"]
                ELSE FreeThread]

\* config, success = load_config(); `if not success: sys.exit(1)`;
\* bot = DiscordBot(triggers=config.get('TRIGGERS', []), reply_text=...);
\* `if bot.setup_driver():`
ScLoad(t) ==
    /\ thr[t].pc = "sc_load"
    /\ LET r == LoadConfig(cfgFile) IN
       IF r.success
       THEN /\ nEngines' = nEngines + 1
            /\ eng' = [eng EXCEPT ![nEngines + 1] =
                          NewEngine(r.config.TRIGGERS, r.config.REPLY_TEXT)]
            /\ thr' = [thr EXCEPT ![t].pc = "sd_edge", ![t].self = nEngines + 1]
       ELSE /\ thr' = [thr EXCEPT ![t].pc = "done"]
            /\ UNCHANGED <<nEngines, eng>>
    /\ UNCHANGED <<shell, cfgFile, sess, nSessions, channel, bot_instance,
                   is_running, btn, current_config, h>>

\* `while True: bot.check_for_new_message(); time.sleep(1)`, or Ctrl-C
ScLoop(t) ==
    /\ thr[t].pc = "sc_loop"
    /\ \/ /\ thr' = [thr EXCEPT ![t].pc = TickEntry]
          /\ h' = HTickStart(h, Self(t))
       \/ /\ thr' = [thr EXCEPT ![t].pc = "sc_finally"]
          /\ h' = h
    /\ UNCHANGED <<shell, cfgFile, eng, nEngines, sess, nSessions, channel,
                   bot_instance, is_running, btn, current_config>>

\* `finally: bot.quit()`
ScFinally(t) ==
    /\ thr[t].pc = "sc_finally"
    /\ CallQuit(t, Self(t), "done")
    /\ UNCHANGED <<shell, cfgFile, eng, nEngines, sess, nSessions, channel,
                   bot_instance, is_running, btn, current_config>>

\* the texts the script's channel shows
ScriptPool == Texts

\* the texts and configuration files of the runs with several threads
HttpPool == { <<"a">> }

HttpConfigFiles == {ConfigDoc(<< <<"A">> >>, <<"a">>), NoFile}

NextScript ==
    \/ \E t \in Threads : ScLoad(t) \/ ScLoop(t) \/ ScFinally(t) \/ SvcMethod(t)
    \/ Post("script", ScriptPool)
    \/ SessionDies

SpecScript == InitScript /\ [][NextScript]_vars

\* the script on a page that shows two messages: one configuration, a text
\* that holds its trigger and a text that does not
FeedPool == { <<"a", "A">>, <<"a">> }

InitFeed ==
    /\ shell = "feed"
    /\ cfgFile = ConfigDoc(<< <<"a", "a">> >>, <<"A">>)
    /\ InitCommon
    /\ btn = NoButtons
    /\ current_config = DefaultConfig
    /\ thr = [t \in Threads |->
                IF t = 1 THEN [FreeThread EXCEPT !.kind = "main", !.pc = "sc_load"]
                ELSE FreeThread]

NextFeed ==
    \/ \E t \in Threads : ScLoad(t) \/ ScLoop(t) \/ ScFinally(t) \/ SvcMethod(t)
    \/ Post("feed", FeedPool)
    \/ SessionDies

SpecFeed == InitFeed /\ [][NextFeed]_vars

\* ------------------------------------------------- the service: app.py
\* a thread is created for a request or by threading.Thread(...).start()
Slots(kind) ==
    CASE kind = "start" -> 2..(1 + MaxStarts)
      [] kind = "stop"  -> (2 + MaxStarts)..(1 + MaxStarts + MaxStops)
      [] kind = "mon"   -> (2 + MaxStarts + MaxStops)..(1 + MaxThreads)
      [] kind = "gmon"  -> 2..(1 + MaxEngines)

Spawned(ts, kind, pc) ==
    [ts EXCEPT ![CHOOSE u \in Slots(kind) :
                    /\ ts[u].kind = "free"
                    /\ \A v \in Slots(kind) : v < u => ts[v].kind # "free"] =
                [FreeThread EXCEPT !.kind = kind, !.pc = pc]]

Count(kind) == Cardinality({t \in Threads : thr[t].kind = kind})

\* the statements of bot_monitor_loop's `while is_running:` loop
LoopPcs == {"m_while", "m_tick"} \cup TickPcs

\* the poll threads that are inside the loop
Polling == {t \in Threads : thr[t].kind = "mon" /\
               (thr[t].pc \in LoopPcs \/ thr[t].qret = "k_raise")}

InitHttp ==
    /\ shell = "http"
    /\ cfgFile \in HttpConfigFiles
    /\ InitCommon
    /\ btn = NoButtons
    /\ current_config = DefaultConfig
    /\ thr = [t \in Threads |-> FreeThread]

\* a POST or GET /start arrives: Flask runs start_bot on a thread of its own
StartReq ==
    /\ Count("start") < MaxStarts
    /\ thr' = Spawned(thr, "start", "st_check")
    /\ UNCHANGED <<shell, cfgFile, eng, nEngines, sess, nSessions, channel,
                   bot_instance, is_running, btn, current_config, h>>

\* `if is_running: return ... 400`; config, success = load_config();
\* `if not success: return ... 500`
StCheck(t) ==
    /\ thr[t].pc = "st_check"
    /\ thr' = [thr EXCEPT ![t].pc =
                  IF ~is_running /\ LoadConfig(cfgFile).success
                  THEN "st_new" ELSE "done"]
    /\ UNCHANGED <<shell, cfgFile, eng, nEngines, sess, nSessions, channel,
                   bot_instance, is_running, btn, current_config, h>>

\* bot_instance = DiscordBot(triggers=config.get('TRIGGERS', []), reply_text=...)
StNew(t) ==
    /\ thr[t].pc = "st_new"
    /\ nEngines < MaxEngines
    /\ nEngines' = nEngines + 1
    /\ eng' = [eng EXCEPT ![nEngines + 1] =
                  NewEngine(LoadConfig(cfgFile).config.TRIGGERS,
                            LoadConfig(cfgFile).config.REPLY_TEXT)]
    /\ bot_instance' = nEngines + 1
    /\ thr' = [thr EXCEPT ![t].pc = "st_setup"]
    /\ UNCHANGED <<shell, cfgFile, sess, nSessions, channel, is_running, btn,
                   current_config, h>>

\* `if not bot_instance.setup_driver():`: the global is read again
StSetup(t) ==
    /\ thr[t].pc = "st_setup"
    /\ thr' = IF bot_instance = 0
              THEN [thr EXCEPT ![t].pc = "done"]
              ELSE [thr EXCEPT ![t].pc = "sd_edge", ![t].self = bot_instance]
    /\ UNCHANGED <<shell, cfgFile, eng, nEngines, sess, nSessions, channel,
                   bot_instance, is_running, btn, current_config, h>>

\* is_running = True;
\* bot_thread = threading.Thread(target=bot_monitor_loop, daemon=True); start()
StRun(t) ==
    /\ thr[t].pc = "st_run"
    /\ is_running' = TRUE
    /\ thr' = Spawned([thr EXCEPT ![t].pc = "done"], "mon", "m_init")
    /\ UNCHANGED <<shell, cfgFile, eng, nEngines, sess, nSessions, channel,
                   bot_instance, btn, current_config, h>>

\* a POST or GET /stop arrives
StopReq ==
    /\ Count("stop") < MaxStops
    /\ thr' = Spawned(thr, "stop", "sp_check")
    /\ UNCHANGED <<shell, cfgFile, eng, nEngines, sess, nSessions, channel,
                   bot_instance, is_running, btn, current_config, h>>

\* a stop_bot that refuses no request
StopNeverRefused == FALSE

\* `if not is_running:`
StopRefused == ~is_running

\* `if not is_running: return ... 400`
SpCheck(t) ==
    /\ thr[t].pc = "sp_check"
    /\ thr' = [thr EXCEPT ![t].pc = IF StopRefused THEN "sp_400" ELSE "sp_clear"]
    /\ UNCHANGED <<shell, cfgFile, eng, nEngines, sess, nSessions, channel,
                   bot_instance, is_running, btn, current_config, h>>

\* is_running = False
SpClear(t) ==
    /\ thr[t].pc = "sp_clear"
    /\ is_running' = FALSE
    /\ thr' = [thr EXCEPT ![t].pc = "sp_if"]
    /\ h' = [h EXCEPT !.stopSeen = IF is_running THEN @ \cup Polling ELSE @]
    /\ UNCHANGED <<shell, cfgFile, eng, nEngines, sess, nSessions, channel,
                   bot_instance, btn, current_config>>

\* `if bot_instance:`
SpIf(t) ==
    /\ thr[t].pc = "sp_if"
    /\ thr' = [thr EXCEPT ![t].pc = IF bot_instance # 0 THEN "sp_quit" ELSE "done"]
    /\ UNCHANGED <<shell, cfgFile, eng, nEngines, sess, nSessions, channel,
                   bot_instance, is_running, btn, current_config, h>>

\* bot_instance.quit(): the global is read again
SpQuit(t) ==
    /\ thr[t].pc = "sp_quit"
    /\ IF bot_instance = 0
       THEN thr' = [thr EXCEPT ![t].pc = "done"] /\ h' = h
       ELSE CallQuit(t, bot_instance, "sp_null")
    /\ UNCHANGED <<shell, cfgFile, eng, nEngines, sess, nSessions, channel,
                   bot_instance, is_running, btn, current_config>>

\* bot_instance = None
SpNull(t) ==
    /\ thr[t].pc = "sp_null"
    /\ bot_instance' = 0
    /\ thr' = [thr EXCEPT ![t].pc = "done", ![t].self = 0]
    /\ UNCHANGED <<shell, cfgFile, eng, nEngines, sess, nSessions, channel,
                   is_running, btn, current_config, h>>

\* bot_monitor_loop: `if not bot_instance ...: is_running = False; return`
MInit(t) ==
    /\ thr[t].pc = "m_init"
    /\ IF bot_instance = 0
       THEN is_running' = FALSE /\ thr' = [thr EXCEPT ![t].pc = "done"]
       ELSE is_running' = is_running /\ thr' = [thr EXCEPT ![t].pc = "m_init2"]
    /\ UNCHANGED <<shell, cfgFile, eng, nEngines, sess, nSessions, channel,
                   bot_instance, btn, current_config, h>>

\* `... or not bot_instance.driver: is_running = False; return`; the global is
\* read again, and None here is an AttributeError outside the try
MInit2(t) ==
    /\ thr[t].pc = "m_init2"
    /\ IF bot_instance = 0
       THEN is_running' = is_running /\ thr' = [thr EXCEPT ![t].pc = "done"]
       ELSE IF eng[bot_instance].driver = 0
       THEN is_running' = FALSE /\ thr' = [thr EXCEPT ![t].pc = "done"]
       ELSE is_running' = is_running /\ thr' = [thr EXCEPT ![t].pc = "m_while"]
    /\ UNCHANGED <<shell, cfgFile, eng, nEngines, sess, nSessions, channel,
                   bot_instance, btn, current_config, h>>

\* `while is_running:` (after time.sleep(1.5), from the second round on)
MWhile(t) ==
    /\ thr[t].pc = "m_while"
    /\ thr' = [thr EXCEPT ![t].pc = IF is_running THEN "m_tick" ELSE "m_finally"]
    /\ h' = [h EXCEPT !.missedStop = @ \/ (is_running /\ t \in h.stopSeen)]
    /\ UNCHANGED <<shell, cfgFile, eng, nEngines, sess, nSessions, channel,
                   bot_instance, is_running, btn, current_config>>

\* bot_instance.check_for_new_message(): None is an AttributeError, which
\* `except Exception` catches
MTick(t) ==
    /\ thr[t].pc = "m_tick"
    /\ IF bot_instance = 0
       THEN thr' = [thr EXCEPT ![t].pc = "m_finally"] /\ h' = h
       ELSE /\ thr' = [thr EXCEPT ![t].pc = TickEntry, ![t].self = bot_instance]
            /\ h' = HTickStart(h, bot_instance)
    /\ UNCHANGED <<shell, cfgFile, eng, nEngines, sess, nSessions, channel,
                   bot_instance, is_running, btn, current_config>>

\* `finally: if bot_instance:`
MFinally(t) ==
    /\ thr[t].pc = "m_finally"
    /\ thr' = [thr EXCEPT ![t].pc = IF bot_instance # 0 THEN "m_quit" ELSE "m_end"]
    /\ UNCHANGED <<shell, cfgFile, eng, nEngines, sess, nSessions, channel,
                   bot_instance, is_running, btn, current_config, h>>

\* bot_instance.quit(): the global is read again, and None here is an
\* AttributeError that ends the thread
MQuit(t) ==
    /\ thr[t].pc = "m_quit"
    /\ IF bot_instance = 0
       THEN thr' = [thr EXCEPT ![t].pc = "done"] /\ h' = h
       ELSE CallQuit(t, bot_instance, "m_end")
    /\ UNCHANGED <<shell, cfgFile, eng, nEngines, sess, nSessions, channel,
                   bot_instance, is_running, btn, current_config>>

\* is_running = False
MEnd(t) ==
    /\ thr[t].pc = "m_end"
    /\ is_running' = FALSE
    /\ thr' = [thr EXCEPT ![t].pc = "done", ![t].self = 0]
    /\ UNCHANGED <<shell, cfgFile, eng, nEngines, sess, nSessions, channel,
                   bot_instance, btn, current_config, h>>

NextHttp ==
    \/ StartReq
    \/ StopReq
    \/ \E t \in Threads :
          \/ StCheck(t) \/ StNew(t) \/ StSetup(t) \/ StRun(t)
          \/ SpCheck(t) \/ SpClear(t) \/ SpIf(t) \/ SpQuit(t) \/ SpNull(t)
          \/ MInit(t) \/ MInit2(t) \/ MWhile(t) \/ MTick(t) \/ MFinally(t)
          \/ MQuit(t) \/ MEnd(t)
          \/ SvcMethod(t)
    \/ Post("http", HttpPool)
    \/ SessionDies

SpecHttp == InitHttp /\ [][NextHttp]_vars

\* ------------------------------------------------- the desktop GUI: bot_gui.py
\* bot_gui.load_config: the configuration, its success flag, and config.json
\* afterwards (a missing file is created with the defaults)
GuiLoadConfig(file) ==
    CASE file.kind = "json" ->
            [config |-> [TRIGGERS |-> IF "TRIGGERS" \in file.keys
                                      THEN file.TRIGGERS ELSE DefaultConfig.TRIGGERS,
                         REPLY_TEXT |-> IF "REPLY_TEXT" \in file.keys
                                        THEN file.REPLY_TEXT
                                        ELSE DefaultConfig.REPLY_TEXT],
             success |-> TRUE, file |-> file]
      [] file.kind = "missing" ->
            [config |-> DefaultConfig, success |-> TRUE,
             file |-> ConfigDoc(DefaultConfig.TRIGGERS, DefaultConfig.REPLY_TEXT)]
      [] OTHER ->
            [config |-> DefaultConfig, success |-> FALSE, file |-> file]

\* the texts and configuration files of the GUI's runs
GuiPool == { <<"a">> }

GuiConfigFiles == {ConfigDoc(<< <<"A">> >>, <<"a">>), NoFile}

\* BotGUI.__init__ and _create_widgets
InitGui ==
    /\ shell = "gui"
    /\ \E f \in GuiConfigFiles :
          /\ cfgFile = GuiLoadConfig(f).file
          /\ current_config = GuiLoadConfig(f).config
    /\ InitCommon
    /\ btn = [run |-> TRUE, monitor |-> FALSE, stop |-> FALSE, settings |-> TRUE,
              dialog |-> 0]
    /\ thr = [t \in Threads |->
                IF t = 1 THEN [FreeThread EXCEPT !.kind = "gui", !.pc = "g_idle"]
                ELSE FreeThread]

\* RUN BOT is clicked: _start_bot_thread up to the call of setup_driver
GRun(t) ==
    /\ thr[t].pc = "g_idle"
    /\ btn.run
    /\ IF is_running
       THEN UNCHANGED <<eng, nEngines, bot_instance, thr>>
       ELSE /\ nEngines < MaxEngines
            /\ nEngines' = nEngines + 1
            /\ eng' = [eng EXCEPT ![nEngines + 1] =
                          NewEngine(current_config.TRIGGERS, current_config.REPLY_TEXT)]
            /\ bot_instance' = nEngines + 1
            /\ thr' = [thr EXCEPT ![t].pc = "sd_edge", ![t].self = nEngines + 1]
    /\ UNCHANGED <<shell, cfgFile, sess, nSessions, channel, is_running, btn,
                   current_config, h>>

\* setup_driver returned False: self.bot_instance = None; return
GRunFail(t) ==
    /\ thr[t].pc = "g_fail"
    /\ bot_instance' = 0
    /\ thr' = [thr EXCEPT ![t].pc = "g_idle", ![t].self = 0]
    /\ UNCHANGED <<shell, cfgFile, eng, nEngines, sess, nSessions, channel,
                   is_running, btn, current_config, h>>

\* setup_driver returned True: self.is_running = True; the thread of
\* self.bot_instance.start_monitoring_loop is started; the buttons change
GRunOk(t) ==
    /\ thr[t].pc = "g_run"
    /\ is_running' = TRUE
    /\ thr' = [Spawned([thr EXCEPT ![t].pc = "g_idle", ![t].self = 0],
                       "gmon", "gm_init")
               EXCEPT ![CHOOSE u \in Slots("gmon") :
                           /\ thr[u].kind = "free"
                           /\ \A v \in Slots("gmon") : v < u => thr[v].kind # "free"
                        ].self = bot_instance]
    /\ btn' = [btn EXCEPT !.run = FALSE, !.monitor = TRUE, !.stop = TRUE,
                          !.settings = FALSE]
    /\ UNCHANGED <<shell, cfgFile, eng, nEngines, sess, nSessions, channel,
                   bot_instance, current_config, h>>

\* threading.Event.set() on is_driver_ready of e: the threads blocked in its
\* wait() are notified and return from it, whatever clears the flag later
Notified(e) ==
    [u \in Threads |->
        IF thr[u].kind = "gmon" /\ thr[u].self = e /\ thr[u].pc = "gm_wait"
        THEN [thr[u] EXCEPT !.pc = "gm_set"] ELSE thr[u]]

\* START MONITORING is clicked: _start_monitoring
GMonitor(t) ==
    /\ thr[t].pc = "g_idle"
    /\ btn.monitor
    /\ IF bot_instance # 0 /\ eng[bot_instance].driver # 0
       THEN /\ eng' = [eng EXCEPT ![bot_instance].is_driver_ready = TRUE]
            /\ thr' = Notified(bot_instance)
            /\ btn' = [btn EXCEPT !.monitor = FALSE]
            /\ h' = [h EXCEPT !.readySig[bot_instance] = TRUE]
       ELSE UNCHANGED <<eng, thr, btn, h>>
    /\ UNCHANGED <<shell, cfgFile, nEngines, sess, nSessions, channel,
                   bot_instance, is_running, current_config>>

\* STOP is clicked: _stop_bot_thread up to the call of quit
GStop(t) ==
    /\ thr[t].pc = "g_idle"
    /\ btn.stop
    /\ IF bot_instance # 0
       THEN /\ eng' = [eng EXCEPT ![bot_instance].is_monitoring = FALSE]
            /\ thr' = [thr EXCEPT ![t].pc = "q_if", ![t].self = bot_instance,
                                  ![t].qret = "g_stop_end"]
            /\ h' = [h EXCEPT !.stopCmd[bot_instance] = TRUE,
                              !.overlapQuit[bot_instance] = @ \/ InQuit(bot_instance)]
       ELSE UNCHANGED <<eng, thr, h>>
    /\ UNCHANGED <<shell, cfgFile, nEngines, sess, nSessions, channel,
                   bot_instance, is_running, btn, current_config>>

\* _stop_bot_thread after quit: self.is_running = False;
\* self.bot_instance = None; the initial button states are restored
GStopEnd(t) ==
    /\ thr[t].pc = "g_stop_end"
    /\ is_running' = FALSE
    /\ bot_instance' = 0
    /\ btn' = [btn EXCEPT !.run = TRUE, !.monitor = FALSE, !.stop = FALSE,
                          !.settings = TRUE]
    /\ thr' = [thr EXCEPT ![t].pc = "g_idle", ![t].self = 0]
    /\ h' = [h EXCEPT !.stopped[Self(t)] = TRUE]
    /\ UNCHANGED <<shell, cfgFile, eng, nEngines, sess, nSessions, channel,
                   current_config>>

\* ------------------------------------------------ the GUI's settings window
\* what the user may have typed into the two entries when Save is clicked
SettingsEntries ==
    { [triggers |-> <<"a", ",", " ">>, reply |-> <<"A", " ">>],
      [triggers |-> <<",", " ">>,      reply |-> <<"A">>] }

\* str.split(',')
RECURSIVE SplitComma(_)
SplitComma(s) ==
    IF \A i \in 1..Len(s) : s[i] # ","
    THEN <<s>>
    ELSE LET k == CHOOSE i \in 1..Len(s) :
                     s[i] = "," /\ \A j \in 1..(i - 1) : s[j] # ","
         IN <<SubSeq(s, 1, k - 1)>> \o SplitComma(SubSeq(s, k + 1, Len(s)))

\* [t.strip() for t in new_triggers_str.split(',') if t.strip()]
ParseTriggers(s) ==
    LET parts == SplitComma(Strip(s))
        NonEmpty(x) == x # <<>>
    IN SelectSeq([i \in 1..Len(parts) |-> Strip(parts[i])], NonEmpty)

\* SETTINGS is clicked: _create_settings_window; the window is not modal
GSettings(t) ==
    /\ thr[t].pc = "g_idle"
    /\ btn.settings
    /\ btn.dialog < MaxDialogs
    /\ btn' = IF is_running THEN btn ELSE [btn EXCEPT !.dialog = @ + 1]
    /\ UNCHANGED <<shell, cfgFile, eng, nEngines, sess, nSessions, channel,
                   bot_instance, is_running, current_config, thr, h>>

\* Save Settings is clicked: save_and_close up to the assignment of
\* self.bot_instance.triggers; nothing happens when an entry is empty or
\* save_config fails
GSave(t) ==
    /\ thr[t].pc = "g_idle"
    /\ btn.dialog > 0
    /\ \E entry \in SettingsEntries, saved \in BOOLEAN :
          LET new_triggers == ParseTriggers(entry.triggers)
              new_reply == Strip(entry.reply)
              new_config == [TRIGGERS |-> new_triggers, REPLY_TEXT |-> new_reply]
          IN
          IF new_reply = <<>> \/ new_triggers = <<>> \/ ~saved
          THEN UNCHANGED <<cfgFile, current_config, eng, btn, thr>>
          ELSE /\ cfgFile' = ConfigDoc(new_triggers, new_reply)
               /\ current_config' = new_config
               /\ IF bot_instance # 0
                  THEN /\ eng' = [eng EXCEPT ![bot_instance].triggers = new_triggers]
                       /\ thr' = [thr EXCEPT ![t].pc = "g_save_reply"]
                       /\ btn' = btn
                  ELSE /\ btn' = [btn EXCEPT !.dialog = @ - 1]
                       /\ UNCHANGED <<eng, thr>>
    /\ UNCHANGED <<shell, nEngines, sess, nSessions, channel, bot_instance,
                   is_running, h>>

\* self.bot_instance.reply_text = new_config['REPLY_TEXT'];
\* settings_win.destroy()
GSaveReply(t) ==
    /\ thr[t].pc = "g_save_reply"
    /\ eng' = [eng EXCEPT ![bot_instance].reply_text = current_config.REPLY_TEXT]
    /\ btn' = [btn EXCEPT !.dialog = @ - 1]
    /\ thr' = [thr EXCEPT ![t].pc = "g_idle"]
    /\ UNCHANGED <<shell, cfgFile, nEngines, sess, nSessions, channel,
                   bot_instance, is_running, current_config, h>>

\* Cancel is clicked: settings_win.destroy
GCancel(t) ==
    /\ thr[t].pc = "g_idle"
    /\ btn.dialog > 0
    /\ btn' = [btn EXCEPT !.dialog = @ - 1]
    /\ UNCHANGED <<shell, cfgFile, eng, nEngines, sess, nSessions, channel,
                   bot_instance, is_running, current_config, thr, h>>

\* start_monitoring_loop: `if not self.driver: return`
GmInit(t) ==
    /\ thr[t].pc = "gm_init"
    /\ thr' = [thr EXCEPT ![t].pc =
                  IF eng[Self(t)].driver = 0 THEN "done" ELSE "gm_wait"]
    /\ UNCHANGED <<shell, cfgFile, eng, nEngines, sess, nSessions, channel,
                   bot_instance, is_running, btn, current_config, h>>

\* a wait() that returns at once
ReadyToGoAlways(e) == TRUE

\* threading.Event.wait() without a timeout returns at once iff the flag is set
ReadyToGo(e) == eng[e].is_driver_ready

\* self.is_driver_ready.wait(), entered with the flag already set
GmWait(t) ==
    /\ thr[t].pc = "gm_wait"
    /\ ReadyToGo(Self(t))
    /\ thr' = [thr EXCEPT ![t].pc = "gm_set"]
    /\ UNCHANGED <<shell, cfgFile, eng, nEngines, sess, nSessions, channel,
                   bot_instance, is_running, btn, current_config, h>>

\* self.is_monitoring.set()
GmSet(t) ==
    /\ thr[t].pc = "gm_set"
    /\ eng' = [eng EXCEPT ![Self(t)].is_monitoring = TRUE]
    /\ thr' = [thr EXCEPT ![t].pc = "gm_while"]
    /\ UNCHANGED <<shell, cfgFile, nEngines, sess, nSessions, channel,
                   bot_instance, is_running, btn, current_config, h>>

\* `while self.is_monitoring.is_set(): self.check_for_new_message()`
GmWhile(t) ==
    /\ thr[t].pc = "gm_while"
    /\ IF eng[Self(t)].is_monitoring
       THEN /\ thr' = [thr EXCEPT ![t].pc = TickEntry]
            /\ h' = HTickStart(h, Self(t))
       ELSE /\ thr' = [thr EXCEPT ![t].pc = "gm_finally"]
            /\ h' = h
    /\ UNCHANGED <<shell, cfgFile, eng, nEngines, sess, nSessions, channel,
                   bot_instance, is_running, btn, current_config>>

\* `except Exception: pass`; `finally: self.quit()`
GmFinally(t) ==
    /\ thr[t].pc = "gm_finally"
    /\ CallQuit(t, Self(t), "done")
    /\ UNCHANGED <<shell, cfgFile, eng, nEngines, sess, nSessions, channel,
                   bot_instance, is_running, btn, current_config>>

NextGui ==
    \/ \E t \in Threads :
          \/ GRun(t) \/ GRunFail(t) \/ GRunOk(t) \/ GMonitor(t) \/ GStop(t)
          \/ GStopEnd(t)
          \/ GmInit(t) \/ GmWait(t) \/ GmSet(t) \/ GmWhile(t) \/ GmFinally(t)
          \/ GuiMethod(t)
    \/ Post("gui", GuiPool)
    \/ SessionDies

SpecGui == InitGui /\ [][NextGui]_vars

\* the GUI with its settings window, while the session lasts and until STOP:
\* the handlers of the settings window assign the configuration only
NextSettings ==
    \/ \E t \in Threads :
          \/ GRun(t) \/ GRunFail(t) \/ GRunOk(t) \/ GMonitor(t)
          \/ GSettings(t) \/ GSave(t) \/ GSaveReply(t) \/ GCancel(t)
          \/ GmInit(t) \/ GmWait(t) \/ GmSet(t) \/ GmWhile(t)
          \/ SdEdge(t) \/ SdGet(t)
          \/ KFind(t) \/ KText(t) \/ KCommit(t) \/ KTrig(t) \/ KReply(t)
    \/ Post("gui", GuiPool)

SpecSettings == InitGui /\ [][NextSettings]_vars

\* the engine driven from one thread at a time: the script and the GUI
NextEngine ==
    \/ \E t \in Threads : ScLoad(t) \/ ScLoop(t) \/ ScFinally(t) \/ SvcMethod(t)
    \/ \E t \in Threads :
          \/ GRun(t) \/ GRunFail(t) \/ GRunOk(t) \/ GMonitor(t) \/ GStop(t)
          \/ GStopEnd(t)
          \/ GmInit(t) \/ GmWait(t) \/ GmSet(t) \/ GmWhile(t) \/ GmFinally(t)
          \/ QFlags(t)
    \/ Post("script", ScriptPool)
    \/ Post("gui", GuiPool)
    \/ SessionDies

InitEngine == InitScript \/ InitGui

SpecEngine == InitEngine /\ [][NextEngine]_vars

\* ------------------------------------------------------------ properties
\* the thread t is inside a tick of object e, at one of the statements pcs
TickAt(t, e, pcs) == thr[t].self = e /\ thr[t].pc \in pcs

\* C1: while the trimmed latest visible text stays the same, an object invokes
\* the reply action at most once for it, and a tick that follows the tick which
\* committed that text neither commits nor evaluates triggers nor replies.
C1_AtMostOneReply ==
    \A e \in Engines :
       /\ h.runReplies[e] <= 1
       /\ (h.follow[e] /\ ~h.stale[e]) =>
             \A t \in Threads : ~TickAt(t, e, {"k_commit", "k_trig", "k_reply"})

\* a tick ended NoNewMessage after the one reply to the text that is still the
\* latest one
C1_Witness ==
    \E e \in Engines :
       /\ h.runReplies[e] = 1
       /\ h.outcome[e] = "NoNewMessage"
       /\ eng[e].last_seen = LatestText(channel)
       /\ eng[e].last_seen # <<>>

\* two characters that differ in case at most
SameLetter(c, d) == c = d \/ {c, d} = {"a", "A"}

\* the trigger occurs in the text at offset k, whatever the case of the letters
OccursAt(text, trig, k) ==
    \A j \in 1..Len(trig) : SameLetter(text[k + j], trig[j])

\* some trigger occurs in the text, whatever the case of the letters
Matches(trigs, text) ==
    \E i \in 1..Len(trigs) :
       \E k \in 0..(Len(text) - Len(trigs[i])) : OccursAt(text, trigs[i], k)

\* C2: a tick that saw a new message invokes the reply action and ends
\* TriggerFired exactly when some trigger occurs in the text ignoring case, and
\* ends NewMessageIgnored without the reply action otherwise.
C2_TriggerIffSubstring ==
    /\ \A t \in Threads :
          thr[t].pc = "k_reply" => Matches(eng[Self(t)].triggers, thr[t].txt)
    /\ \A e \in Engines :
          /\ h.outcome[e] = "TriggerFired" => Matches(eng[e].triggers, eng[e].last_seen)
          /\ h.outcome[e] = "NewMessageIgnored" =>
                ~Matches(eng[e].triggers, eng[e].last_seen)

\* a tick ended TriggerFired on a text that holds a trigger in another case only
C2_Witness ==
    \E e \in Engines :
       /\ h.outcome[e] = "TriggerFired"
       /\ ~AnyTriggerCaseSensitive(eng[e].triggers, eng[e].last_seen)

\* C3: the cursor holds the new text while the triggers are evaluated and while
\* the reply is attempted; after a failed reply the cursor still holds that text
\* and no tick commits, evaluates or replies to it again.
C3_CommitBeforeReply ==
    /\ \A t \in Threads :
          thr[t].pc \in {"k_trig", "k_reply"} => eng[Self(t)].last_seen = thr[t].txt
    /\ \A e \in Engines :
          h.failedFor[e] # <<"none">> =>
             /\ eng[e].last_seen = h.failedFor[e]
             /\ \A t \in Threads :
                   TickAt(t, e, {"k_commit", "k_trig", "k_reply"}) =>
                      thr[t].txt # h.failedFor[e]

\* a tick ended NoNewMessage on the text whose reply had failed
C3_Witness ==
    \E e \in Engines :
       /\ h.failedFor[e] # <<"none">>
       /\ h.failedFor[e] = LatestText(channel)
       /\ h.outcome[e] = "NoNewMessage"

\* the value discord_bot.py's check_for_new_message returned last on object e
\* is True
ReturnedTrue(e) == ~GuiClass /\ h.outcome[e] = "TriggerFired"

\* C13: a tick whose reply failed does not return True, the value that
\* reports a sent reply.
C13_FailedReplyNotReported ==
    \A e \in Engines : h.failedFor[e] # <<"none">> => ~ReturnedTrue(e)

\* C14: a tick leaves through the raising clause exactly when its session
\* reported that it is gone: the raising clause is entered only for a session
\* that is no longer open, a tick whose query found the session gone ends in
\* no other way, and no tick calls _send_reply on a session that is lost
\* (_send_reply catches what the session raises, and the tick returns normally).
C14_OnlySessionLossPropagates ==
    /\ \A t \in Threads :
          thr[t].pc = "k_lost" =>
             thr[t].hnd # 0 /\ sess[thr[t].hnd].st # "open"
    /\ \A e \in Engines :
          h.lost[e] => h.outcome[e] \in {"running", "SessionLost"}
    /\ \A t \in Threads :
          (thr[t].pc = "k_reply" /\ eng[Self(t)].driver # 0)
          => sess[eng[Self(t)].driver].st # "dead"

\* C15: the step of a tick whose message query raises NoSuchElementException
\* leaves every object, every session and the channel as they were, and the
\* thread is back in its poll loop.
C15_ElementNotFoundNoEffect ==
    [][\A t \in Threads :
          (/\ thr[t].pc = "k_find"
           /\ thr'[t].pc # "k_find"
           /\ h'.outcome[Self(t)] = "ElementNotFound")
          => /\ eng' = eng
             /\ sess' = sess
             /\ channel' = channel
             /\ thr'[t].pc = TickRetPc(thr[t].kind)]_vars

\* a tick ended ElementNotFound on an object that has a cursor and a session
C15_Witness ==
    \E e \in Engines :
       /\ h.outcome[e] = "ElementNotFound"
       /\ eng[e].last_seen # <<>>
       /\ eng[e].driver # 0

\* C11: the thread of start_monitoring_loop stays before or in
\* is_driver_ready.wait() until START MONITORING has set that event on its
\* object: it sets is_monitoring and runs check_for_new_message only
\* afterwards, and is_monitoring is set on no object that was not signalled
C11_NoTickBeforeReady ==
    /\ \A t \in Threads :
          (thr[t].kind = "gmon" /\ ~h.readySig[Self(t)])
          => thr[t].pc \in {"gm_init", "gm_wait", "done"}
    /\ \A e \in Engines :
          ~h.readySig[e] => ~eng[e].is_monitoring /\ h.outcome[e] = "none"

C11_Witness ==
    \E t \in Threads :
        /\ thr[t].kind = "gmon" /\ thr[t].pc = "gm_while"
        /\ h.readySig[Self(t)]
        /\ h.outcome[Self(t)] \notin {"none", "running"}

\* C12: find_elements, the read of an element's text, find_element, click and
\* send_keys are never called on a session after quit() has closed it.
C12_NoUseAfterClose ==
    [][\A t \in Threads :
          /\ (thr[t].pc = "k_find" /\ thr'[t].pc # "k_find"
                 /\ eng[Self(t)].driver # 0)
             => sess[eng[Self(t)].driver].st # "closed"
          /\ (thr[t].pc = "k_text" /\ thr'[t].pc # "k_text")
             => sess[thr[t].hnd].st # "closed"
          /\ (thr[t].pc = "k_reply" /\ thr'[t].pc # "k_reply"
                 /\ eng[Self(t)].driver # 0)
             => sess[eng[Self(t)].driver].st # "closed"]_vars

Configurations ==
    {GuiLoadConfig(f).config : f \in GuiConfigFiles}
    \cup {[TRIGGERS |-> ParseTriggers(x.triggers), REPLY_TEXT |-> Strip(x.reply)] :
             x \in {y \in SettingsEntries :
                       ParseTriggers(y.triggers) # <<>> /\ Strip(y.reply) # <<>>}}

\* C17: no step taken while the GUI's running flag is set changes the triggers
\* or the reply text of the GUI's object.
C17_NoReconfigureWhileRunning ==
    [][(is_running /\ bot_instance # 0)
       => /\ eng'[bot_instance].triggers = eng[bot_instance].triggers
          /\ eng'[bot_instance].reply_text = eng[bot_instance].reply_text]_vars

\* C18: the reply text a tick sends and the triggers it matched belong to one
\* configuration.
C18_TickUsesOneConfig ==
    [][\A t \in Threads :
          (thr[t].pc = "k_reply" /\ thr'[t].pc # "k_reply" /\ channel' # channel)
          => [TRIGGERS |-> h.usedTrig[Self(t)],
              REPLY_TEXT |-> channel'[Len(channel')]] \in Configurations]_vars

\* C19: when config.json is missing or malformed, a /start request that has
\* returned has constructed an object with the default triggers and reply.
C19_StartFallsBackToDefaults ==
    ~LoadConfig(cfgFile).success
    => \A t \in Threads :
          (thr[t].kind = "start" /\ thr[t].pc = "done")
          => \E e \in 1..nEngines :
                /\ eng[e].triggers = DefaultConfig.TRIGGERS
                /\ eng[e].reply_text = DefaultConfig.REPLY_TEXT

\* C20: once a /start request is past its call of load_config, config.json
\* exists and holds the defaults it was created with or what it held before.
C20_MissingFileIsCreated ==
    (\E t \in Threads : thr[t].kind = "start" /\ thr[t].pc # "st_check")
    => /\ cfgFile.kind # "missing"
       /\ LoadConfig(cfgFile).success

\* C4: at most one poll thread of the service is inside the poll loop.
C4_OnePoller == Cardinality(Polling) <= 1

\* C5: the monitoring flag of an object that reached Stopped is never set.
C5_StoppedStays ==
    \A e \in Engines : h.stopped[e] => ~eng[e].is_monitoring

\* C6: an object whose tick ended with the loss of the session has no session
\* attached from then on.
C6_LossIsFinal ==
    \A e \in Engines : h.lostDone[e] => eng[e].driver = 0

\* C7: when the GUI's poll thread has ended after the loss of the session, with
\* no stop command, the GUI's running flag is false.
C7_FlagFollowsLoss ==
    \A t \in Threads :
       (/\ thr[t].kind = "gmon"
        /\ thr[t].pc = "done"
        /\ h.lost[thr[t].self]
        /\ ~h.stopCmd[thr[t].self]) => ~is_running

\* C8: quit called with no session attached, or again after a quit, does not
\* reach the session's close operation, and so every close operation is the
\* first one of its session (calls of quit that overlapped another one apart).
C8_QuitIdempotent ==
    \A t \in Threads :
       (thr[t].pc = "q_close" /\ ~h.overlapQuit[Self(t)]) =>
          /\ eng[Self(t)].driver # 0
          /\ sess[eng[Self(t)].driver].closes = 0

\* a call of quit returned at its guard after a session had been closed, and no
\* session was closed twice
C8_Witness ==
    /\ h.noopQuit
    /\ \A e \in Engines : ~h.overlapQuit[e]
    /\ \A d \in Sessions : sess[d].closes <= 1

\* C9: with the stop handler and the poll thread both calling quit, a session
\* is closed once and no call reaches the close operation on a handle that is
\* None.
C9_ConcurrentQuitSafe ==
    /\ \A d \in Sessions : sess[d].closes <= 1
    /\ \A t \in Threads : thr[t].pc = "q_close" => eng[Self(t)].driver # 0

\* C10: a poll thread that was in the loop when a stop command cleared the flag
\* does not find the flag set at the top of its loop.
C10_StopObserved == ~h.missedStop

\* C21: once the script is past its load of a config.json that is not valid
\* JSON, the load has reported failure and has returned the default triggers
\* and reply text (the file is as it was).
C21_MalformedLoadYieldsDefaults ==
    \A t \in Threads :
       (thr[t].kind = "main" /\ thr[t].pc # "sc_load" /\ cfgFile.kind = "malformed")
       => /\ ~LoadConfig(cfgFile).success
          /\ LoadConfig(cfgFile).config.TRIGGERS = DefaultConfig.TRIGGERS
          /\ LoadConfig(cfgFile).config.REPLY_TEXT = DefaultConfig.REPLY_TEXT

\* C22: when a call of quit returns, its object has no session attached, an
\* empty cursor, and both flags clear.
C22_QuitResetsAll ==
    [][\A t \in Threads :
          (thr[t].pc \in QuitPcs /\ thr'[t].pc \notin QuitPcs)
          => /\ eng'[thr[t].self].driver = 0
             /\ eng'[thr[t].self].last_seen = <<>>
             /\ ~eng'[thr[t].self].is_monitoring
             /\ ~eng'[thr[t].self].is_driver_ready]_vars

\* C23: an object with no triggers never reaches the reply action: its ticks
\* that see a new text commit it and end NewMessageIgnored.
C23_EmptyTriggersNeverReply ==
    \A e \in 1..nEngines :
       eng[e].triggers = <<>>
       => /\ \A t \in Threads : ~TickAt(t, e, {"k_reply"})
          /\ \A t \in Threads :
                TickAt(t, e, {"k_trig"}) => eng[e].last_seen = thr[t].txt
          /\ h.outcome[e] # "TriggerFired"
          /\ h.runReplies[e] = 0
          /\ h.failedFor[e] = <<"none">>

\* a tick of an object with no triggers committed a text and ended
\* NewMessageIgnored
C23_Witness ==
    \E e \in 1..nEngines :
       /\ eng[e].triggers = <<>>
       /\ h.outcome[e] = "NewMessageIgnored"
       /\ eng[e].last_seen # <<>>
       /\ eng[e].last_seen = LatestText(channel)

C25_NoNewMessageExactly ==
    [][\A t \in Threads :
          LET e == thr[t].self
              quiet == /\ h'.outcome[e] = "NoNewMessage"
                       /\ thr'[t].pc = TickRetPc(thr[t].kind)
                       /\ eng' = eng
                       /\ channel' = channel
          IN
          /\ (thr[t].pc = "k_find" /\ thr'[t].pc # "k_find")
             => (quiet <=> (thr'[t].pc = TickRetPc(thr[t].kind) /\ channel = <<>>
                              /\ h'.outcome[e] \notin {"ElementNotFound", "Error"}))
          /\ (thr[t].pc = "k_text" /\ thr'[t].pc \notin {"k_text", "k_lost"})
             => LET x == Strip(thr[t].txt) IN
                IF x = <<>> \/ x = eng[e].last_seen
                THEN quiet
                ELSE thr'[t].pc = "k_commit" /\ thr'[t].txt = x /\ ~quiet
          /\ (thr[t].pc = "k_commit" /\ thr'[t].pc # "k_commit")
             => eng'[e].last_seen = thr[t].txt]_vars

\* a tick is about to commit a text that differs from the cursor in case only
C25_Witness ==
    \E t \in Threads :
       /\ thr[t].pc = "k_commit"
       /\ eng[thr[t].self].last_seen # <<>>
       /\ thr[t].txt # eng[thr[t].self].last_seen
       /\ Lower(thr[t].txt) = Lower(eng[thr[t].self].last_seen)

\* C26: a tick reads the text of the last element of the message list only,
\* commits nothing but that text after strip(), and its reply step adds at
\* most the one reply to the channel: a message that is not last when the
\* tick queries the list reaches neither the cursor nor the reply action.
C26_OnlyLastMessage ==
    [][\A t \in Threads :
          LET e == thr[t].self IN
          /\ (thr[t].pc = "k_find" /\ thr'[t].pc = "k_text")
             => thr'[t].txt = channel[Len(channel)]
          /\ (thr[t].pc = "k_text" /\ thr'[t].pc = "k_commit")
             => thr'[t].txt = Strip(thr[t].txt)
          /\ (thr[t].pc = "k_commit" /\ thr'[t].pc = "k_trig")
             => eng'[e].last_seen = thr[t].txt /\ thr'[t].txt = thr[t].txt
          /\ (thr[t].pc = "k_trig" /\ thr'[t].pc = "k_reply")
             => thr'[t].txt = thr[t].txt /\ channel' = channel
          /\ (thr[t].pc = "k_reply" /\ thr'[t].pc # "k_reply")
             => /\ channel' \in {channel, Pushed(channel, eng[e].reply_text)}
                /\ thr'[t].pc = TickRetPc(thr[t].kind)]_vars

\* the text with the trigger was followed by another text before a tick ran:
\* the tick took the later text and sent no reply
C26_Witness ==
    \E e \in 1..nEngines :
       /\ channel = << <<"a", "A">>, <<"a">> >>
       /\ Matches(eng[e].triggers, channel[1])
       /\ ~Matches(eng[e].triggers, channel[2])
       /\ h.outcome[e] = "NewMessageIgnored"
       /\ eng[e].last_seen = channel[2]

\* C27: an object whose first tick has not begun has an empty cursor, whatever
\* the objects constructed before it have seen.
C27_NewInstanceEmptyCursor ==
    \A e \in 1..nEngines : h.outcome[e] = "none" => eng[e].last_seen = <<>>

\* after STOP and a new RUN BOT the second object replied to the text the
\* first object had replied to, still the latest one
C27_Witness ==
    /\ nEngines = 2
    /\ h.stopped[1]
    /\ eng[1].last_seen # <<>>
    /\ Matches(eng[1].triggers, eng[1].last_seen)
    /\ eng[2].last_seen = eng[1].last_seen
    /\ h.outcome[2] = "TriggerFired"
    /\ h.runReplies[2] = 1

\* C28: a /stop that arrives while a /start is held in setup_driver, its
\* session open and the Enter that signals readiness still awaited, is not
\* refused.
C28_StopWhileAwaitingReady ==
    [][\A t \in Threads :
          (/\ thr[t].kind = "stop"
           /\ thr[t].pc = "sp_check"
           /\ thr'[t].pc # "sp_check"
           /\ \E u \in Threads :
                 /\ thr[u].kind = "start" /\ thr[u].pc = "sd_input"
                 /\ eng[thr[u].self].driver # 0
                 /\ sess[eng[thr[u].self].driver].st = "open")
          => thr'[t].pc # "sp_400"]_vars

\* C29: after a message somebody posted, and until the next one, at most two
\* replies are sent, also when the reply text holds a trigger.
C29_SelfReplyBounded == h.sinceExt <= 2

\* the second reply was sent to the object's own first reply
C29_Witness ==
    \E e \in 1..nEngines :
       /\ h.sinceExt = 2
       /\ Matches(eng[e].triggers, eng[e].reply_text)
       /\ channel = <<eng[e].reply_text>>
       /\ eng[e].last_seen = Strip(eng[e].reply_text)
       /\ h.outcome[e] = "NoNewMessage"

\* C30: whenever the service reports not running and no /start is being
\* handled, no session that was opened is still open.
C30_NoSessionLeak ==
    (/\ shell = "http"
     /\ ~is_running
     /\ \A t \in Threads : thr[t].pc \in {"free", "done"})
    => \A d \in 1..nSessions : sess[d].st # "open"

=============================================================================
